---- MODULE Spec2Model ----
(***************************************************************************)
(* A model of the skills.sh pipeline: the retry wrapper fetchWithRetry,    *)
(* the crawl run (fetchBoard, merge, first-seen map, index), and the       *)
(* enricher's worker pool processPool.                                     *)
(***************************************************************************)
EXTENDS Integers, Sequences, FiniteSets, TLC

VARIABLES
    \* ---- fetchWithRetry (one call) ----
    rpc,        \* position in the call: "loop", "awaiting", "sleeping", "returned", "thrown", "idle"
    attempt,    \* the loop variable `attempt`
    rlog,       \* history of the call: requests issued (with their outcome) and backoff waits
    rerr,       \* the error the call threw ("" while none)
    \* ---- crawl run (main of the crawler) ----
    cpc,        \* position of main: "fetch", "merge", "index", "done", "failed"; "off" outside a crawl
    board,      \* index into BOARDS of the board being fetched (Len(BOARDS) + 1 after the loop)
    page,       \* fetchBoard's `page`
    all,        \* fetchBoard's `all`
    boardData,  \* main's boardData: board name -> rows
    firstSeen,  \* main's in-memory first-seen map
    now,        \* the run's timestamp
    dataDir,    \* does DATA_DIR exist
    firstSeenFile,  \* data/skills_first_seen.json
    indexFile,  \* data/skills_index.json
    pre,        \* the two files as they were when the run started
    clog,       \* recent history of the fetch phase: the last page request that was
                \* answered, the page read from it, and the request made after it
    closed,     \* history: the boards a page of which said hasMore = false
    \* ---- processPool (one call) ----
    ppc,        \* "start", "running", "resolved", "rejected"; "off" outside a pool
    concurrency,    \* the argument `concurrency`
    nItems,     \* items.length
    nextIdx,    \* the shared cursor
    results,    \* the result slots, index 0 .. nItems - 1
    wpc,        \* per worker: "inflight" (awaiting fn), "done", "failed"
    widx,       \* per worker: the index it is processing
    claims,     \* history: per index, the workers that took it and called fn for it, in order
    \* ---- extractDescription (one call) ----
    xpc,        \* "start", "done"; "off" outside a call
    md,         \* the argument: the text of a SKILL.md, a sequence of characters
    desc,       \* the value returned
    \* ---- the categorizer (main of the categorizer) ----
    kpc,        \* "loop", "done"; "off" outside a categorizer run
    kitems,     \* index.items
    ki,         \* position of the loop over the items, from 1
    skillToCategory,    \* main's skillToCategory
    categoryFile,       \* data/skills_category_index.json
    \* ---- the enricher (main of the description fetcher) ----
    epc,        \* position of main: "pool", "done", "failed"; "off" outside an enricher run
    eindex,     \* index.items as parsed from the index file
    topN,       \* TOP_N
    needsFetch, \* main's needsFetch
    cache,      \* per item id: the file data/skills-md/<source>/<skillId>/SKILL.md
    fcand,      \* per worker: the candidate path its fetchSkillDescription call awaits
                \* (from 1; 0: none, the call has its result)
    fres,       \* per worker: the result its fetchSkillDescription call resolves to
    requested,  \* history: per item id, the candidate paths requested, in order
    written,    \* history: per item id, the texts written to its cache file, in order
    okSeen,     \* history: the item ids a request for which was answered with an ok status
    eIndexFile, \* data/skills_index.json as the enricher reads and writes it
    epre        \* the index file and the cache as they were when the run started

retryVars == <<rpc, attempt, rlog, rerr>>

crawlVars == <<cpc, board, page, all, boardData, firstSeen, now, dataDir,
               firstSeenFile, indexFile, pre, clog, closed>>

poolVars == <<ppc, concurrency, nItems, nextIdx, results, wpc, widx, claims>>

extractVars == <<xpc, md, desc>>

catVars == <<kpc, kitems, ki, skillToCategory, categoryFile>>

\* the variables of the pure functions and of the categorizer
toolVars == <<extractVars, catVars>>

fetchVars == <<epc, eindex, topN, needsFetch, cache, fcand, fres, requested, written,
               okSeen, eIndexFile, epre>>

\* the variables outside the crawler
enrichVars == <<poolVars, toolVars, fetchVars>>

vars == <<retryVars, crawlVars, poolVars, toolVars, fetchVars>>

\* no enricher run is modelled
FetchOff ==
    /\ epc = "off"
    /\ eindex = <<>>
    /\ topN = 0
    /\ needsFetch = <<>>
    /\ cache = <<>>
    /\ fcand = <<>>
    /\ fres = <<>>
    /\ requested = <<>>
    /\ written = <<>>
    /\ okSeen = {}
    /\ eIndexFile = [kind |-> "missing"]
    /\ epre = [index |-> [kind |-> "missing"], cache |-> <<>>]

\* extractDescription has no result
NullDesc == [null |-> TRUE, text |-> <<>>]

\* no call of a pure function and no categorizer run is modelled
ToolsOff ==
    /\ xpc = "off"
    /\ md = <<>>
    /\ desc = NullDesc
    /\ kpc = "off"
    /\ kitems = <<>>
    /\ ki = 0
    /\ skillToCategory = <<>>
    /\ categoryFile = [kind |-> "missing"]

\* no pool is running
PoolOff ==
    /\ ppc = "off"
    /\ concurrency = 0
    /\ nItems = 0
    /\ nextIdx = 0
    /\ results = <<>>
    /\ wpc = <<>>
    /\ widx = <<>>
    /\ claims = <<>>

----------------------------------------------------------------------------
\* Program constants

MAX_RETRIES == 4

BACKOFF_BASE_MS == 200

----------------------------------------------------------------------------
\* fetchWithRetry

\* HTTP statuses the server may answer with; 0 stands for "no response"
Statuses == {200, 404, 429, 503}

Resp(s) == [kind |-> "resp", status |-> s]

\* fetch() rejected: network error, or AbortSignal.timeout(REQUEST_TIMEOUT) fired
NetErr == [kind |-> "throw", status |-> 0]

Outcomes == {Resp(s) : s \in Statuses} \cup {NetErr}

\* Response.ok
IsOk(o) == o.kind = "resp" /\ o.status >= 200 /\ o.status <= 299

\* the status test of line 65
IsRetryStatus(o) == o.kind = "resp" /\ (o.status = 429 \/ o.status >= 500)

BackoffLinear(a) == BACKOFF_BASE_MS * (a + 1)

\* the argument of sleep() on lines 67 and 74
BackoffMs(a) == BACKOFF_BASE_MS * 2 ^ a

ReqEvent(o) == [ev |-> "request", outcome |-> o, ms |-> 0]

WaitEvent(ms) == [ev |-> "wait", outcome |-> NetErr, ms |-> ms]

\* fetchWithRetry is entered: attempt = 0, nothing issued yet
RetryEnter ==
    /\ rpc' = "loop"
    /\ attempt' = 0
    /\ rerr' = ""

\* line 63: fetch(url, ...) is issued and awaited
SendRequest ==
    /\ rpc = "loop"
    /\ rpc' = "awaiting"
    /\ UNCHANGED <<attempt, rerr>>

\* what the body of the try block and the catch clause do with the outcome
\* of the awaited fetch: <<next position, thrown error, does it sleep>>
AfterFetch(o, a) ==
    IF IsOk(o) THEN <<"returned", "", FALSE>>
    ELSE IF IsRetryStatus(o) THEN <<"sleeping", "", TRUE>>
    \* a thrown fetch, or the `throw new Error(HTTP ...)` of line 70, both
    \* land in the catch clause of line 71
    ELSE IF a = MAX_RETRIES - 1
         THEN <<"thrown", IF o.kind = "resp" THEN "http" ELSE "fetch", FALSE>>
         ELSE <<"sleeping", "", TRUE>>

\* lines 63-75: the awaited fetch settles with outcome o
Receive(o) ==
    /\ rpc = "awaiting"
    /\ rpc' = AfterFetch(o, attempt)[1]
    /\ rerr' = AfterFetch(o, attempt)[2]
    /\ UNCHANGED attempt

\* the history of the call after that step: the request with its outcome,
\* and the backoff wait when lines 67 or 74 are reached
Logged(log, o, a) ==
    IF AfterFetch(o, a)[3]
    THEN log \o <<ReqEvent(o), WaitEvent(BackoffMs(a))>>
    ELSE Append(log, ReqEvent(o))

AfterSleepOneMore(a) ==
    IF a + 1 < MAX_RETRIES + 1 THEN <<"loop", "">> ELSE <<"thrown", "unreachable">>

\* position after the loop's attempt++ : next iteration, or line 77
AfterSleep(a) ==
    IF a + 1 < MAX_RETRIES THEN <<"loop", "">> ELSE <<"thrown", "unreachable">>

\* the sleep of line 67 or 74 is over; `continue` / end of the loop body
Wake ==
    /\ rpc = "sleeping"
    /\ attempt' = attempt + 1
    /\ rpc' = AfterSleep(attempt)[1]
    /\ rerr' = AfterSleep(attempt)[2]

----------------------------------------------------------------------------
\* Crawl: data

BOARDS == <<"all-time", "trending", "hot">>

BoardNames == {BOARDS[i] : i \in 1..Len(BOARDS)}

\* bounds of the server's answers: rows of a whole run whose pages are
\* fetched one by one, pages of a board, rows of a page, install counts
MaxFetchRows == 2

MaxPages == 2

MaxPageRows == 1

MaxInstalls == 1

\* rows of a whole run when the fetched boards are given at once
MaxRows == 3

\* (source, skillId) pairs the server lists
SkillKeys == {<<"a", "b">>, <<"a", "c">>, <<"d", "b">>}

\* ApiSkill
ApiSkills ==
    {[source |-> k[1], skillId |-> k[2], name |-> "n", installs |-> n] :
        k \in SkillKeys, n \in 0..MaxInstalls}

\* `${s.source}/${s.skillId}`
Id(s) == s.source \o "/" \o s.skillId

AllIds == {Id(s) : s \in ApiSkills}

Null == "null"

OldStamp == "2024-01-01T00:00:00.000Z"

RunStamp == "2026-11-05T00:00:00.000Z"

EmptyMap == [id \in {} |-> ""]

MapGet(m, k, default) == IF k \in DOMAIN m THEN m[k] ELSE default

MapSet(m, k, v) == [x \in DOMAIN m \cup {k} |-> IF x = k THEN v ELSE m[x]]

Max(a, b) == IF a >= b THEN a ELSE b

SeqsUpTo(S, n) == UNION {[1..k -> S] : k \in 0..n}

Min(a, b) == IF a <= b THEN a ELSE b

\* ApiResponse, as far as the crawl reads it, with at most n rows
PageBodies(n) == [skills : SeqsUpTo(ApiSkills, Min(n, MaxPageRows)), hasMore : BOOLEAN]

\* a file that is not there, and a first-seen file JSON.parse rejects
Missing == [kind |-> "missing"]

Corrupt == [kind |-> "corrupt"]

FirstSeenContent(m) == [kind |-> "ok", map |-> m]

\* an index left by an earlier crawl and enrichment
OldIndex ==
    [kind |-> "ok", updatedAt |-> OldStamp, sourceUpdatedAt |-> OldStamp,
     providerId |-> "skills.sh", count |-> 1,
     items |-> <<[id |-> "d/b", providerId |-> "skills.sh", source |-> "d",
                  skillId |-> "b", title |-> "n",
                  link |-> "https://skills.sh/skills/d/b",
                  installsAllTime |-> 1, installsTrending |-> 0, installsHot |-> 0,
                  firstSeenAt |-> OldStamp, description |-> "An old description.",
                  skillMdPath |-> "data/skills-md/d/b/SKILL.md"]>>]

----------------------------------------------------------------------------
\* Crawl: pure parts of main

MergeInstallsLastWins(prev, installs) == installs

\* one step of the install maps: Math.max(map.get(id) ?? 0, s.installs)
MergeInstalls(prev, installs) == Max(prev, installs)

\* lines 138-149: the install map of one board
RECURSIVE InstallCounts(_)
InstallCounts(rows) ==
    IF rows = <<>> THEN EmptyMap
    ELSE LET m == InstallCounts(SubSeq(rows, 1, Len(rows) - 1))
             s == rows[Len(rows)]
         IN MapSet(m, Id(s), MergeInstalls(MapGet(m, Id(s), 0), s.installs))

\* the rows in the order lines 153-154 scan them
ScanOrder(bd) == bd[BOARDS[1]] \o bd[BOARDS[2]] \o bd[BOARDS[3]]

CollectSkillsNoDedup(rows) == rows

\* lines 152-160: skillMap in insertion order; the first row of an id wins
RECURSIVE CollectSkills(_)
CollectSkills(rows) ==
    IF rows = <<>> THEN <<>>
    ELSE LET acc == CollectSkills(SubSeq(rows, 1, Len(rows) - 1))
             s == rows[Len(rows)]
         IN IF \E i \in 1..Len(acc) : Id(acc[i]) = Id(s) THEN acc ELSE Append(acc, s)

\* lines 106-115
LoadFirstSeen(file) == IF file.kind = "ok" THEN file.map ELSE EmptyMap

UpdateFirstSeenOverwrite(m, ids, ts) ==
    [id \in DOMAIN m \cup ids |-> IF id \in ids THEN ts ELSE m[id]]

\* lines 165-169
UpdateFirstSeen(m, ids, ts) ==
    [id \in DOMAIN m \cup ids |-> IF id \in DOMAIN m THEN m[id] ELSE ts]

\* lines 117-120; the key order of the written object is not modelled
SaveFirstSeen(m) == FirstSeenContent(m)

\* encodeURIComponent on the strings of the model
EncodeURIComponent(str) == IF str = "a/b" THEN "a%2Fb" ELSE str

\* lines 175-188
Item(skill, bd, fs) ==
    [id |-> Id(skill),
     providerId |-> "skills.sh",
     source |-> skill.source,
     skillId |-> skill.skillId,
     title |-> skill.name,
     link |-> "https://skills.sh/skills/" \o EncodeURIComponent(skill.source)
                \o "/" \o EncodeURIComponent(skill.skillId),
     installsAllTime |-> MapGet(InstallCounts(bd["all-time"]), Id(skill), 0),
     installsTrending |-> MapGet(InstallCounts(bd["trending"]), Id(skill), 0),
     installsHot |-> MapGet(InstallCounts(bd["hot"]), Id(skill), 0),
     firstSeenAt |-> MapGet(fs, Id(skill), Null),
     description |-> Null,
     skillMdPath |-> Null]

InsertItemUnstable(sorted, x) ==
    LET before == {j \in 1..Len(sorted) : sorted[j].installsAllTime > x.installsAllTime}
        n == Cardinality(before)
    IN SubSeq(sorted, 1, n) \o <<x>> \o SubSeq(sorted, n + 1, Len(sorted))

\* where a stable sort by (a, b) => b.installsAllTime - a.installsAllTime puts x
\* among the already sorted items that preceded it
InsertItem(sorted, x) ==
    LET before == {j \in 1..Len(sorted) : sorted[j].installsAllTime >= x.installsAllTime}
        n == Cardinality(before)
    IN SubSeq(sorted, 1, n) \o <<x>> \o SubSeq(sorted, n + 1, Len(sorted))

\* line 192: Array.prototype.sort is stable
RECURSIVE SortItems(_)
SortItems(items) ==
    IF items = <<>> THEN <<>>
    ELSE InsertItem(SortItems(SubSeq(items, 1, Len(items) - 1)), items[Len(items)])

\* lines 173-200
BuildIndex(bd, fs, ts) ==
    LET skills == CollectSkills(ScanOrder(bd))
        items == SortItems([i \in 1..Len(skills) |-> Item(skills[i], bd, fs)])
    IN [kind |-> "ok", updatedAt |-> ts, sourceUpdatedAt |-> ts,
        providerId |-> "skills.sh", count |-> Len(items), items |-> items]

----------------------------------------------------------------------------
\* Crawl: the run

RowsSoFar == Len(all) + Len(boardData[BOARDS[1]]) + Len(boardData[BOARDS[2]])
                + Len(boardData[BOARDS[3]])

\* process.exit(1) of lines 209-212: the run's data is gone, the files stay
\* (board and page keep telling where the run stopped)
Exit1 ==
    /\ cpc' = "failed"
    /\ UNCHANGED <<board, page>>
    /\ all' = <<>>
    /\ boardData' = [b \in BoardNames |-> <<>>]
    /\ firstSeen' = EmptyMap
    /\ UNCHANGED <<now, dataDir, firstSeenFile, indexFile, pre, clog, closed>>

\* main() rejects when fetchWithRetry threw
Propagate == IF rpc' = "thrown" THEN Exit1 ELSE UNCHANGED crawlVars

CrawlSend == cpc = "fetch" /\ SendRequest /\ UNCHANGED <<rlog, crawlVars, enrichVars>>

CrawlReceive ==
    /\ cpc = "fetch"
    /\ \E o \in Outcomes : Receive(o)
    /\ Propagate
    /\ UNCHANGED <<rlog, enrichVars>>

CrawlWake == cpc = "fetch" /\ Wake /\ Propagate /\ UNCHANGED <<rlog, enrichVars>>

\* line 90: fetchBoard calls fetchWithRetry for page p of board b
CallEvent(b, p) == [ev |-> "call", board |-> BOARDS[b], page |-> p, hasMore |-> FALSE]

\* line 91: the page's body was read
PageEvent(b, p, hasMore) == [ev |-> "page", board |-> BOARDS[b], page |-> p, hasMore |-> hasMore]

AfterPageKeepsPage(b, p, hasMore) ==
    IF hasMore THEN <<b, p + 1, TRUE>>
    ELSE IF b < Len(BOARDS) THEN <<b + 1, p, TRUE>>
    ELSE <<b + 1, 0, FALSE>>

AfterPageFirstBoardOnly(b, p, hasMore) ==
    IF hasMore THEN <<b, p + 1, TRUE>> ELSE <<b + 1, 0, FALSE>>

\* where fetchBoard and the loop of lines 129-131 go after a page:
\* <<board, page, is another page requested>>
AfterPage(b, p, hasMore) ==
    IF hasMore THEN <<b, p + 1, TRUE>>
    ELSE IF b < Len(BOARDS) THEN <<b + 1, 0, TRUE>>
    ELSE <<b + 1, 0, FALSE>>

\* lines 91-98 and 129-131: the body of an ok response is read
ReadPage(data) ==
    /\ cpc = "fetch"
    /\ rpc = "returned"
    /\ data.hasMore => page + 1 < MaxPages
    /\ LET nxt == AfterPage(board, page, data.hasMore) IN
        /\ board' = nxt[1]
        /\ page' = nxt[2]
        /\ all' = IF data.hasMore THEN all \o data.skills ELSE <<>>
        /\ boardData' = IF data.hasMore THEN boardData
                        ELSE [boardData EXCEPT ![BOARDS[board]] = all \o data.skills]
        /\ IF nxt[3]
           THEN /\ RetryEnter
                /\ cpc' = "fetch"
                /\ clog' = <<clog[Len(clog)], PageEvent(board, page, data.hasMore),
                             CallEvent(nxt[1], nxt[2])>>
           ELSE /\ rpc' = "idle"
                /\ attempt' = 0
                /\ cpc' = "merge"
                /\ clog' = <<clog[Len(clog)], PageEvent(board, page, data.hasMore)>>
                /\ UNCHANGED rerr
        /\ closed' = IF data.hasMore THEN closed ELSE closed \cup {BOARDS[board]}
    /\ UNCHANGED <<rlog, firstSeen, now, dataDir, firstSeenFile, indexFile, pre, enrichVars>>

\* lines 133-170: the maps are built, the first-seen map is loaded, updated and saved
MergeAndSave ==
    /\ cpc = "merge"
    /\ LET ids == {Id(s) : s \in {ScanOrder(boardData)[i] : i \in 1..Len(ScanOrder(boardData))}}
           fs == UpdateFirstSeen(LoadFirstSeen(firstSeenFile), ids, now)
       IN IF dataDir
          THEN /\ firstSeen' = fs
               /\ firstSeenFile' = SaveFirstSeen(fs)
               /\ cpc' = "index"
               /\ UNCHANGED <<board, page, all, boardData, now, dataDir, indexFile, pre, clog,
                              closed>>
          \* writeFileSync into a directory that does not exist throws
          ELSE Exit1
    /\ UNCHANGED <<retryVars, enrichVars>>

WriteIndexKeepsDescriptions ==
    /\ cpc = "index"
    /\ LET built == BuildIndex(boardData, firstSeen, now)
           old == indexFile
           Kept(item) ==
               IF old.kind = "ok" /\ \E k \in 1..Len(old.items) : old.items[k].id = item.id
               THEN LET o == old.items[CHOOSE k \in 1..Len(old.items) :
                                            old.items[k].id = item.id]
                    IN [item EXCEPT !.description = o.description,
                                    !.skillMdPath = o.skillMdPath]
               ELSE item
       IN indexFile' = [built EXCEPT !.items = [i \in 1..Len(built.items) |->
                                                    Kept(built.items[i])]]
    /\ dataDir' = TRUE
    /\ cpc' = "done"
    /\ UNCHANGED <<retryVars, board, page, all, boardData, firstSeen, now,
                   firstSeenFile, pre, clog, closed, enrichVars>>

\* lines 172-204
WriteIndex ==
    /\ cpc = "index"
    /\ indexFile' = BuildIndex(boardData, firstSeen, now)
    /\ dataDir' = TRUE
    /\ cpc' = "done"
    /\ UNCHANGED <<retryVars, board, page, all, boardData, firstSeen, now,
                   firstSeenFile, pre, clog, closed, enrichVars>>

\* ids an earlier run may have recorded
KnownIds == {"a/b", "d/b"}

\* the data directory before a run: absent; or present with the two files
\* absent, or with an index and a first-seen file that is unreadable or a map
StartFiles ==
    {[dir |-> FALSE, firstSeen |-> Missing, index |-> Missing],
     [dir |-> TRUE, firstSeen |-> Missing, index |-> Missing],
     [dir |-> TRUE, firstSeen |-> Corrupt, index |-> OldIndex]}
    \cup {[dir |-> TRUE, firstSeen |-> FirstSeenContent(m), index |-> OldIndex] :
            m \in UNION {[S -> {OldStamp}] : S \in SUBSET KnownIds}}

CrawlInit ==
    /\ cpc = "fetch"
    /\ board = 1
    /\ page = 0
    /\ all = <<>>
    /\ boardData = [b \in BoardNames |-> <<>>]
    /\ firstSeen = EmptyMap
    /\ now = RunStamp
    /\ \E f \in StartFiles :
        /\ dataDir = f.dir
        /\ firstSeenFile = f.firstSeen
        /\ indexFile = f.index
        /\ pre = f
    /\ clog = <<CallEvent(1, 0)>>
    /\ closed = {}
    /\ rpc = "loop"
    /\ attempt = 0
    /\ rerr = ""
    /\ rlog = <<>>
    /\ PoolOff
    /\ ToolsOff
    /\ FetchOff

CrawlNext ==
    \/ CrawlSend
    \/ CrawlReceive
    \/ CrawlWake
    \/ \E data \in PageBodies(MaxFetchRows - RowsSoFar) : ReadPage(data)
    \/ MergeAndSave
    \/ WriteIndex

SpecCrawl == CrawlInit /\ [][CrawlNext]_vars

\* no crawl is running
CrawlOff ==
    /\ cpc = "off"
    /\ board = 0
    /\ page = 0
    /\ all = <<>>
    /\ boardData = [b \in BoardNames |-> <<>>]
    /\ firstSeen = EmptyMap
    /\ now = RunStamp
    /\ dataDir = TRUE
    /\ firstSeenFile = Missing
    /\ indexFile = Missing
    /\ pre = [dir |-> TRUE, firstSeen |-> Missing, index |-> Missing]
    /\ clog = <<>>
    /\ closed = {}

----------------------------------------------------------------------------
\* The merge of a crawl run, for any fetched boards within the bounds

\* the boards a fetch phase can have produced: rows cut into three boards
FetchedBoards ==
    {[b \in BoardNames |->
        IF b = BOARDS[1] THEN SubSeq(rows, 1, i)
        ELSE IF b = BOARDS[2] THEN SubSeq(rows, i + 1, j)
        ELSE SubSeq(rows, j + 1, Len(rows))] :
     <<rows, i, j>> \in {t \in SeqsUpTo(ApiSkills, MaxRows) \X (0..MaxRows) \X (0..MaxRows) :
                            t[2] <= t[3] /\ t[3] <= Len(t[1])}}

\* main after the loop of lines 129-131
MergeInit ==
    /\ cpc = "merge"
    /\ board = Len(BOARDS) + 1
    /\ page = 0
    /\ all = <<>>
    /\ boardData \in FetchedBoards
    /\ firstSeen = EmptyMap
    /\ now = RunStamp
    /\ \E f \in StartFiles :
        /\ dataDir = f.dir
        /\ firstSeenFile = f.firstSeen
        /\ indexFile = f.index
        /\ pre = f
    /\ clog = <<>>
    /\ closed = {}
    /\ rpc = "idle"
    /\ attempt = 0
    /\ rerr = ""
    /\ rlog = <<>>
    /\ PoolOff
    /\ ToolsOff
    /\ FetchOff

MergeNext ==
    \/ MergeAndSave
    \/ WriteIndex

SpecMerge == MergeInit /\ [][MergeNext]_vars

----------------------------------------------------------------------------
\* Claims about the crawl run

\* C4: when a page fetch exhausted its retries the run has exited with a
\* failure and both files are as they were before the run; and whenever a
\* file differs from its pre-run contents, all three boards were fetched.
C4_AbortLeavesFiles ==
    /\ rpc = "thrown" =>
        (cpc = "failed" /\ firstSeenFile = pre.firstSeen /\ indexFile = pre.index)
    /\ (firstSeenFile # pre.firstSeen \/ indexFile # pre.index) =>
        (board = Len(BOARDS) + 1 /\ cpc \in {"index", "done"})

\* a run that had an index and a first-seen map, fetched the first board and
\* then ran out of retries on the second
C4_Witness ==
    /\ rpc = "thrown"
    /\ cpc = "failed"
    /\ board = 2
    /\ pre.index = OldIndex
    /\ pre.firstSeen.kind = "ok"

\* the map a first-seen file holds (none when it is absent or unreadable)
PersistedMap(f) == IF f.kind = "ok" THEN f.map ELSE EmptyMap

RowsOf(bd) == {ScanOrder(bd)[i] : i \in 1..Len(ScanOrder(bd))}

SeenIds(bd) == {Id(r) : r \in RowsOf(bd)}

\* C5: every id of the first-seen map persisted before the run is in the
\* persisted map at any later point with the same timestamp, and an id that
\* was not in it has the run's timestamp (and was seen in the run).
C5_FirstSeenAppendOnly ==
    LET before == PersistedMap(pre.firstSeen)
        after == PersistedMap(firstSeenFile) IN
    /\ \A id \in DOMAIN before : id \in DOMAIN after /\ after[id] = before[id]
    /\ \A id \in DOMAIN after \ DOMAIN before :
        after[id] = now /\ id \in SeenIds(boardData)

\* the map was saved by a run that saw a known id again, did not see another
\* known id, and saw a new one
C5_Witness ==
    /\ cpc \in {"index", "done"}
    /\ DOMAIN PersistedMap(pre.firstSeen) = {"a/b", "d/b"}
    /\ SeenIds(boardData) = {"a/b", "a/c"}
    /\ firstSeenFile # pre.firstSeen

\* C6: after a successful run the index has exactly one item for every id
\* of a fetched row, no item of another id, and count is the number of items.
C6_OneItemPerId ==
    cpc = "done" =>
        LET items == indexFile.items IN
        /\ {items[i].id : i \in 1..Len(items)} = SeenIds(boardData)
        /\ \A i, j \in 1..Len(items) : items[i].id = items[j].id => i = j
        /\ indexFile.count = Len(items)

\* an id listed by two boards, and twice by one of them, next to another id
C6_Witness ==
    /\ cpc = "done"
    /\ Len(boardData["all-time"]) = 2
    /\ Id(boardData["all-time"][1]) = Id(boardData["all-time"][2])
    /\ Len(boardData["hot"]) = 1
    /\ indexFile.count = 1

InstallsIn(bd, b, id) == {r.installs : r \in {x \in RowsOf([c \in BoardNames |-> IF c = b THEN bd[b] ELSE <<>>]) : Id(x) = id}}

MaxOf(S) == CHOOSE x \in S : \A y \in S : y <= x

\* C7: for every board and every id with a row in that board, the item's
\* counter for the board is the largest installs value of those rows.
C7_MaxMerge ==
    cpc = "done" =>
        \A i \in 1..Len(indexFile.items) :
            LET it == indexFile.items[i] IN
            /\ InstallsIn(boardData, "all-time", it.id) # {}
                => it.installsAllTime = MaxOf(InstallsIn(boardData, "all-time", it.id))
            /\ InstallsIn(boardData, "trending", it.id) # {}
                => it.installsTrending = MaxOf(InstallsIn(boardData, "trending", it.id))
            /\ InstallsIn(boardData, "hot", it.id) # {}
                => it.installsHot = MaxOf(InstallsIn(boardData, "hot", it.id))

\* a board listing an id twice, the larger count first
C7_Witness ==
    /\ cpc = "done"
    /\ Len(boardData["trending"]) = 2
    /\ Id(boardData["trending"][1]) = Id(boardData["trending"][2])
    /\ boardData["trending"][1].installs > boardData["trending"][2].installs

\* the place where an id is first met when the boards are scanned in order
FirstPos(bd, id) ==
    CHOOSE i \in 1..Len(ScanOrder(bd)) :
        /\ Id(ScanOrder(bd)[i]) = id
        /\ \A j \in 1..(i - 1) : Id(ScanOrder(bd)[j]) # id

\* C8: the items are in descending installsAllTime order, and items with
\* equal installsAllTime are in the order their ids were first met.
C8_SortedStable ==
    cpc = "done" =>
        LET items == indexFile.items IN
        \A i, j \in 1..Len(items) :
            i < j =>
                /\ items[i].installsAllTime >= items[j].installsAllTime
                /\ items[i].installsAllTime = items[j].installsAllTime
                    => FirstPos(boardData, items[i].id) < FirstPos(boardData, items[j].id)

\* three items: the one met last has the most installs and comes first, the
\* other two tie
C8_Witness ==
    /\ cpc = "done"
    /\ Len(indexFile.items) = 3
    /\ FirstPos(boardData, indexFile.items[1].id) = 3
    /\ indexFile.items[2].installsAllTime = indexFile.items[3].installsAllTime

\* C15: when the first-seen file is missing or unparseable at the start of
\* a run, the run does not fail after the fetch phase, and when it is done
\* the first-seen file holds exactly the ids seen in the run, each with the
\* run's timestamp, and the index is the one built in this run.
C15_UnreadableFirstSeenCompletes ==
    pre.firstSeen \in {Missing, Corrupt} =>
        /\ cpc # "failed"
        /\ cpc = "done" =>
              /\ firstSeenFile = FirstSeenContent([id \in SeenIds(boardData) |-> now])
              /\ indexFile = BuildIndex(boardData, firstSeen, now)

\* position of a board in BOARDS
BoardIdx(name) == CHOOSE i \in 1..Len(BOARDS) : BOARDS[i] = name

\* calls of fetchWithRetry that have not delivered their page
OpenCalls ==
    Cardinality({i \in 1..Len(clog) : clog[i].ev = "call"})
        - Cardinality({i \in 1..Len(clog) : clog[i].ev = "page"})

\* C18: page requests are strictly sequential: the first request is page 0
\* of all-time; a further request follows a page that was read, and it is
\* the next page of the same board when that page said hasMore, page 0 of
\* the next board in BOARDS order when it did not; the outstanding request
\* is never for a board a page of which said hasMore = false; a page is
\* read only in answer to the request just before it; at most one request
\* is outstanding, and the network is used only inside it.
C18_SequentialPages ==
    /\ (Len(clog) = 1 /\ clog[1].ev = "call") => clog = <<CallEvent(1, 0)>>
    /\ \A i \in 2..Len(clog) :
          clog[i].ev = "call" =>
             /\ clog[i - 1].ev = "page"
             /\ IF clog[i - 1].hasMore
                THEN clog[i].board = clog[i - 1].board /\ clog[i].page = clog[i - 1].page + 1
                ELSE /\ BoardIdx(clog[i].board) = BoardIdx(clog[i - 1].board) + 1
                     /\ clog[i].page = 0
    /\ \A i \in 1..Len(clog) :
          clog[i].ev = "page" =>
             /\ i > 1
             /\ clog[i - 1].ev = "call"
             /\ clog[i - 1].board = clog[i].board
             /\ clog[i - 1].page = clog[i].page
    /\ (clog # <<>> /\ clog[Len(clog)].ev = "call") => clog[Len(clog)].board \notin closed
    /\ OpenCalls \in {0, 1}
    /\ rpc \in {"loop", "awaiting", "sleeping"} => OpenCalls = 1

\* the second page of trending was read and page 0 of hot is being requested
C18_Witness ==
    /\ rpc = "awaiting"
    /\ clog = <<CallEvent(2, 1), PageEvent(2, 1, FALSE), CallEvent(3, 0)>>
    /\ closed = {BOARDS[1], BOARDS[2]}

----------------------------------------------------------------------------
\* processPool

MaxConcurrency == 3

MaxItems == 4

\* a slot of `new Array(items.length)` nothing was stored in
Hole == [filled |-> FALSE, item |-> 0, description |-> Null]

\* what fn(items[idx]) resolves to: the item's id with its description or null
FnResult(idx, d) == [filled |-> TRUE, item |-> idx, description |-> d]

Descriptions == {Null, "A description of the skill."}

PoolSizeOneMore(k, m) == Max(0, Min(k + 1, m))

\* line 399: the length Array.from gives the array of workers
PoolSize(k, m) == Max(0, Min(k, m))

Workers == 1..PoolSize(concurrency, nItems)

\* line 399: every worker() runs up to its first await: worker w takes the
\* index nextIdx++ and calls fn; with no worker Promise.all resolves at once
PoolStart ==
    /\ ppc = "start"
    /\ wpc' = [w \in Workers |-> "inflight"]
    /\ widx' = [w \in Workers |-> w - 1]
    /\ nextIdx' = PoolSize(concurrency, nItems)
    /\ claims' = [i \in DOMAIN claims |-> IF i + 1 \in Workers THEN <<i + 1>> ELSE <<>>]
    /\ ppc' = IF Workers = {} THEN "resolved" ELSE "running"
    /\ UNCHANGED <<concurrency, nItems, results, retryVars, crawlVars, toolVars>>

\* lines 393-396: fn resolved for worker w; the result is stored in the slot
\* of idx, and the worker takes the next index or ends
WorkerResume(w, d) ==
    /\ ppc \in {"running", "rejected"}
    /\ wpc[w] = "inflight"
    /\ results' = [results EXCEPT ![widx[w]] = FnResult(widx[w], d)]
    /\ IF nextIdx < nItems
       THEN /\ widx' = [widx EXCEPT ![w] = nextIdx]
            /\ nextIdx' = nextIdx + 1
            /\ claims' = [claims EXCEPT ![nextIdx] = Append(@, w)]
            /\ UNCHANGED <<wpc, ppc>>
       ELSE /\ wpc' = [wpc EXCEPT ![w] = "done"]
            \* Promise.all resolves when the last worker ended
            /\ ppc' = IF ppc = "running" /\ \A v \in Workers \ {w} : wpc[v] = "done"
                      THEN "resolved" ELSE ppc
            /\ UNCHANGED <<widx, nextIdx, claims>>
    /\ UNCHANGED <<concurrency, nItems, retryVars, crawlVars, toolVars>>

\* fn rejected for worker w: the worker's promise and Promise.all reject,
\* the other workers go on
WorkerReject(w) ==
    /\ ppc \in {"running", "rejected"}
    /\ wpc[w] = "inflight"
    /\ wpc' = [wpc EXCEPT ![w] = "failed"]
    /\ ppc' = "rejected"
    /\ UNCHANGED <<concurrency, nItems, nextIdx, results, widx, claims, retryVars, crawlVars,
                   toolVars>>

PoolInit ==
    /\ ppc = "start"
    /\ concurrency \in 0..MaxConcurrency
    /\ nItems \in 0..MaxItems
    /\ nextIdx = 0
    /\ results = [i \in 0..(nItems - 1) |-> Hole]
    /\ wpc = <<>>
    /\ widx = <<>>
    /\ claims = [i \in 0..(nItems - 1) |-> <<>>]
    /\ rpc = "idle"
    /\ attempt = 0
    /\ rlog = <<>>
    /\ rerr = ""
    /\ CrawlOff
    /\ ToolsOff
    /\ FetchOff

\* a pool whose fn touches nothing but its result
PoolStartAlone == PoolStart /\ UNCHANGED fetchVars

WorkerResumeAlone(w, d) == WorkerResume(w, d) /\ UNCHANGED fetchVars

WorkerRejectAlone(w) == WorkerReject(w) /\ UNCHANGED fetchVars

PoolNext ==
    \/ PoolStartAlone
    \/ \E w \in Workers, d \in Descriptions : WorkerResumeAlone(w, d)
    \/ \E w \in Workers : WorkerRejectAlone(w)

SpecPool == PoolInit /\ [][PoolNext]_vars

\* invocations of fn that have started and not completed
InFlight == Cardinality({w \in DOMAIN wpc : wpc[w] = "inflight"})

\* C9: the number of started and not completed invocations of the per-item
\* function never exceeds the pool size K, nor the number of items M.
C9_InFlightBounded == InFlight <= concurrency /\ InFlight <= nItems

\* a full pool in the middle of a run: K calls in flight, a slot already
\* filled, items still waiting
C9_Witness ==
    /\ concurrency >= 2
    /\ InFlight = concurrency
    /\ nextIdx < nItems
    /\ \E i \in DOMAIN results : results[i].filled

\* C10: with M > K items, once the pool has finished without a failed call,
\* every one of the M slots holds the result of its item, for every
\* configured K.
C10_AllSlotsFilled ==
    (ppc = "resolved" /\ nItems > concurrency) =>
        \A i \in 0..(nItems - 1) : results[i].filled /\ results[i].item = i

\* C19: under every interleaving of the workers no index is taken twice
\* (one worker, one call of fn per index), the result in slot i is the
\* result of the call made for item i, and when the pool has finished every
\* index 0..M-1 was taken by exactly one worker and fn was called exactly
\* once for it.
C19_EachItemOnce ==
    /\ \A i \in DOMAIN claims : Len(claims[i]) <= 1
    /\ \A i \in DOMAIN results : results[i].filled => results[i].item = i
    /\ ppc = "resolved" => \A i \in 0..(nItems - 1) : Len(claims[i]) = 1

----------------------------------------------------------------------------
\* extractDescription: text is a sequence of characters (UTF-16 code units,
\* what String.length counts), a character is a string of length 1

\* the character U+0060, which a string of this language cannot hold
Backquote == "backquote"

\* the white space String.prototype.trim removes
IsSpace(c) == c \in {" ", "\n", "\t"}

\* String.prototype.trim: from the first to the last character that is not
\* white space
Trim(s) ==
    LET ink == {i \in 1..Len(s) : ~IsSpace(s[i])}
    IN IF ink = {} THEN <<>>
       ELSE SubSeq(s, CHOOSE i \in ink : \A j \in ink : i <= j,
                      CHOOSE i \in ink : \A j \in ink : i >= j)

\* String.prototype.startsWith
StartsWith(s, p) == Len(s) >= Len(p) /\ SubSeq(s, 1, Len(p)) = p

\* String.prototype.indexOf(p, from): the first position (from 0) at or
\* after `from` where p occurs, -1 when there is none
IndexOf(s, p, from) ==
    LET at == {i \in from..(Len(s) - Len(p)) : SubSeq(s, i + 1, i + Len(p)) = p}
    IN IF at = {} THEN -1 ELSE CHOOSE i \in at : \A j \in at : i <= j

\* String.prototype.slice(from), positions from 0
SliceFrom(s, from) == SubSeq(s, from + 1, Len(s))

Dashes == <<"-", "-", "-">>

\* lines 290-296: the YAML frontmatter is removed when it is closed
StripFrontmatter(text) ==
    IF StartsWith(text, Dashes)
    THEN LET end == IndexOf(text, Dashes, 3)
         IN IF end # -1 THEN Trim(SliceFrom(text, end + 3)) ELSE text
    ELSE text

\* String.prototype.split("\n")
RECURSIVE SplitLines(_)
SplitLines(s) ==
    LET i == IndexOf(s, <<"\n">>, 0)
    IN IF i = -1 THEN <<s>>
       ELSE <<SubSeq(s, 1, i)>> \o SplitLines(SliceFrom(s, i + 1))

\* lines 300-311: the first line that is not blank decides where the
\* paragraph search starts (after it when it is a heading); positions from 0
StartIdx(lines) ==
    LET full == {i \in 1..Len(lines) : Trim(lines[i]) # <<>>}
    IN IF full = {} THEN 0
       ELSE LET i == CHOOSE k \in full : \A j \in full : k <= j
            IN IF StartsWith(Trim(lines[i]), <<"#">>) THEN i ELSE i - 1

\* line 322: headings, code fences and link list entries are skipped
IsSkipped(line) ==
    \/ StartsWith(line, <<"#">>)
    \/ StartsWith(line, <<Backquote, Backquote, Backquote>>)
    \/ StartsWith(line, <<"-", " ", "[">>)

\* lines 315-324: the loop from position i (from 0) with the lines collected so far
RECURSIVE CollectParagraph(_, _, _)
CollectParagraph(lines, i, acc) ==
    IF i >= Len(lines) THEN acc
    ELSE LET line == Trim(lines[i + 1])
         IN IF line = <<>>
            THEN IF acc # <<>> THEN acc ELSE CollectParagraph(lines, i + 1, acc)
            ELSE IF IsSkipped(line) THEN CollectParagraph(lines, i + 1, acc)
            ELSE CollectParagraph(lines, i + 1, Append(acc, line))

\* lines 290-324
ParagraphLines(text) ==
    LET lines == SplitLines(StripFrontmatter(text))
    IN CollectParagraph(lines, StartIdx(lines), <<>>)

\* Array.prototype.join(" ")
RECURSIVE JoinLines(_)
JoinLines(ls) ==
    IF ls = <<>> THEN <<>>
    ELSE IF Len(ls) = 1 THEN ls[1]
    ELSE ls[1] \o <<" ">> \o JoinLines(Tail(ls))

\* line 330: every [label](target), found from the left, becomes label; the
\* label is one or more characters other than "]", the target one or more
\* characters other than ")"
RECURSIVE ReplaceLinks(_)
ReplaceLinks(s) ==
    LET open == IndexOf(s, <<"[">>, 0)
        close == IndexOf(s, <<"]">>, open + 1)
        paren == IF close = -1 THEN -1 ELSE IndexOf(s, <<")">>, close + 2)
        isLink == /\ close >= open + 2
                  /\ Len(s) >= close + 2
                  /\ s[close + 2] = "("
                  /\ paren >= close + 3
    IN IF open = -1 THEN s
       ELSE IF isLink
       THEN SubSeq(s, 1, open) \o SubSeq(s, open + 2, close)
                \o ReplaceLinks(SliceFrom(s, paren + 1))
       ELSE SubSeq(s, 1, open + 1) \o ReplaceLinks(SliceFrom(s, open + 1))

\* line 331
IsEmphasis(c) == c \in {"*", "_", Backquote}

StripEmphasis(s) == SelectSeq(s, LAMBDA c : ~IsEmphasis(c))

\* lines 328-332: the paragraph as one cleaned line
Cleaned(paragraph) == Trim(StripEmphasis(ReplaceLinks(JoinLines(paragraph))))

Ellipsis == <<".", ".", ".">>

TruncateKeepsAll(text) == IF Len(text) > 200 THEN SubSeq(text, 1, 200) \o Ellipsis ELSE text

\* lines 335-337
Truncate(text) == IF Len(text) > 200 THEN SubSeq(text, 1, 197) \o Ellipsis ELSE text

SomeDesc(text) == [null |-> FALSE, text |-> text]

\* lines 288-340: null, or the description
extractDescription(text) ==
    LET paragraph == ParagraphLines(text)
    IN IF paragraph = <<>> THEN NullDesc
       ELSE LET d == Truncate(Cleaned(paragraph))
            IN IF Len(d) > 10 THEN SomeDesc(d) ELSE NullDesc

\* One call of extractDescription on a document

ShortLen == 12

LongLen == 203

Letters == <<"s", "k", "i", "l", "l", " ">>

\* a text of n characters
TextOf(n) == [i \in 1..n |-> Letters[((i - 1) % Len(Letters)) + 1]]

\* the lengths around the two thresholds
TextLengths == (0..ShortLen) \cup ((LongLen - 8)..LongLen)

Shapes == {"plain", "frontmatter", "bold", "link", "two lines", "after list", "heading only"}

\* a SKILL.md of the given shape around a text of n characters
Document(shape, n) ==
    CASE shape = "plain" -> TextOf(n)
      [] shape = "frontmatter" ->
            <<"-", "-", "-", "\n", "n", ":", "x", "\n", "-", "-", "-", "\n", "\n",
              "#", " ", "T", "\n", "\n">> \o TextOf(n) \o <<"\n", "\n", "m", "o", "r", "e">>
      [] shape = "bold" -> <<"#", " ", "T", "\n", "*", "*">> \o TextOf(n) \o <<"*", "*">>
      [] shape = "link" -> <<"[">> \o TextOf(n) \o <<"]", "(", "u", ")">>
      [] shape = "two lines" -> <<" ", " ">> \o TextOf(n) \o <<"\n", "t", "a", "i", "l", "\n">>
      [] shape = "after list" ->
            <<"-", " ", "[", "x", "]", "(", "y", ")", "\n", Backquote, Backquote, Backquote, "\n">> \o TextOf(n)
      [] shape = "heading only" -> <<"#", " ">> \o TextOf(n)

Documents == {Document(shape, n) : shape \in Shapes, n \in TextLengths}

\* no call of fetchWithRetry is running
RetryOff ==
    /\ rpc = "idle"
    /\ attempt = 0
    /\ rlog = <<>>
    /\ rerr = ""

ExtractInit ==
    /\ xpc = "start"
    /\ md \in Documents
    /\ desc = NullDesc
    /\ kpc = "off"
    /\ kitems = <<>>
    /\ ki = 0
    /\ skillToCategory = <<>>
    /\ categoryFile = Missing
    /\ RetryOff
    /\ CrawlOff
    /\ PoolOff
    /\ FetchOff

Extract ==
    /\ xpc = "start"
    /\ desc' = extractDescription(md)
    /\ xpc' = "done"
    /\ UNCHANGED <<md, catVars, retryVars, crawlVars, poolVars, fetchVars>>

ExtractNext == Extract

SpecExtract == ExtractInit /\ [][ExtractNext]_vars

\* C17: a result that is not null has 11 to 200 characters; cleaned text of
\* more than 200 characters is returned as its first 197 characters followed
\* by "..."; cleaned text of 11 to 200 characters is returned unchanged;
\* cleaned text of fewer than 11 characters, or no paragraph line, gives null.
C17_DescriptionLength ==
    xpc = "done" =>
        LET paragraph == ParagraphLines(md)
            text == Cleaned(paragraph) IN
        /\ ~desc.null => Len(desc.text) >= 11 /\ Len(desc.text) <= 200
        /\ (paragraph # <<>> /\ Len(text) > 200) =>
              desc = SomeDesc(SubSeq(text, 1, 197) \o Ellipsis)
        /\ (paragraph # <<>> /\ Len(text) >= 11 /\ Len(text) <= 200) => desc = SomeDesc(text)
        /\ (paragraph = <<>> \/ Len(text) < 11) => desc.null

\* a document with frontmatter, a heading and a paragraph of 201 cleaned
\* characters was cut to 200
C17_Witness ==
    /\ xpc = "done"
    /\ StartsWith(md, Dashes)
    /\ Len(Cleaned(ParagraphLines(md))) = 201
    /\ ~desc.null
    /\ Len(desc.text) = 200
    /\ SubSeq(desc.text, 198, 200) = Ellipsis

----------------------------------------------------------------------------
\* The categorizer: text is a sequence of words, a word being a maximal run
\* of letters, digits and "_" (what stands between two \b of a pattern)

\* lines 30-40: the names of the rules, in CATEGORIES order
CategoryNames ==
    <<"development-tools", "data-analysis", "document-processing", "creative-media",
      "communication-writing", "business-marketing", "productivity", "collaboration",
      "security">>

\* lines 31-39: of each rule's alternation, the keywords the modelled
\* vocabulary can hit
Keywords ==
    <<{"code", "test", "docker", "web", "api"},
      {"data", "dashboard", "pipeline", "kpi"},
      {"pdf", "video", "merge", "encrypt"},
      {"video", "edit", "design"},
      {"edit", "memo", "write"},
      {"kpi", "market", "sales"},
      {"todo", "task", "note"},
      {"merge", "team"},
      {"encrypt", "password"}>>

\* the flag i of the patterns: a word of the vocabulary in lower case
ToLower(w) ==
    CASE w = "Docker" -> "docker"
      [] w = "Data" -> "data"
      [] w = "KPI" -> "kpi"
      [] w = "Encrypt" -> "encrypt"
      [] w = "Edit" -> "edit"
      [] w = "Team" -> "team"
      [] w = "Haiku" -> "haiku"
      [] OTHER -> w

\* line 43: source, skillId and title joined by spaces
SearchText(skill) == skill.source \o skill.skillId \o skill.title

\* line 45: pattern.test(text) for rule k: a keyword stands as a whole word
RuleMatches(k, text) == \E i \in 1..Len(text) : ToLower(text[i]) \in Keywords[k]

categorizeLastMatch(skill) ==
    LET hits == {k \in 1..Len(CategoryNames) : RuleMatches(k, SearchText(skill))}
    IN IF hits = {} THEN "other"
       ELSE CategoryNames[CHOOSE k \in hits : \A j \in hits : j <= k]

\* lines 42-48
categorize(skill) ==
    LET hits == {k \in 1..Len(CategoryNames) : RuleMatches(k, SearchText(skill))}
    IN IF hits = {} THEN "other"
       ELSE CategoryNames[CHOOSE k \in hits : \A j \in hits : k <= j]

MaxCatItems == 2

RECURSIVE JoinWords(_)
\* the words of a field written with "-" between them
JoinWords(ws) ==
    IF ws = <<>> THEN ""
    ELSE IF Len(ws) = 1 THEN ws[1]
    ELSE ws[1] \o "-" \o JoinWords(Tail(ws))

Sources == {<<"acme">>, <<"web", "corp">>}

CatSkillIds == {<<"haiku">>, <<"pdf", "merge">>, <<"unit_test">>, <<"KPI", "dashboard">>}

Titles == {<<"Haiku">>, <<"Docker", "Data", "pipeline">>, <<"Encrypt", "video">>,
           <<"Edit", "memo">>, <<"Team", "password">>}

\* the items an index can hold, with the id the crawler gives them
IndexItems ==
    {[id |-> JoinWords(s) \o "/" \o JoinWords(k), source |-> s, skillId |-> k, title |-> t] :
        s \in Sources, k \in CatSkillIds, t \in Titles}

\* the item lists of an index: no id twice
ItemLists ==
    {l \in SeqsUpTo(IndexItems, MaxCatItems) :
        \A i \in 1..Len(l), j \in 1..Len(l) : i # j => l[i].id # l[j].id}

\* the output of a categorizer run: lines 69-79
CategoryIndex(map, ts) ==
    [kind |-> "ok", updatedAt |-> ts, version |-> 1,
     primaryCategories |-> CategoryNames, skillToCategory |-> map]

CategorizeInit ==
    /\ kpc = "loop"
    /\ kitems \in ItemLists
    /\ ki = 1
    /\ skillToCategory = EmptyMap
    /\ categoryFile = Missing
    /\ xpc = "off"
    /\ md = <<>>
    /\ desc = NullDesc
    /\ RetryOff
    /\ CrawlOff
    /\ PoolOff
    /\ FetchOff

\* lines 61-65: one round of the loop over index.items
CategorizeItem ==
    /\ kpc = "loop"
    /\ ki <= Len(kitems)
    /\ skillToCategory' = MapSet(skillToCategory, kitems[ki].id, categorize(kitems[ki]))
    /\ ki' = ki + 1
    /\ UNCHANGED <<kpc, kitems, categoryFile, extractVars, retryVars, crawlVars, poolVars,
                   fetchVars>>

\* lines 67-79: the category index is written
WriteCategoryIndex ==
    /\ kpc = "loop"
    /\ ki > Len(kitems)
    /\ categoryFile' = CategoryIndex(skillToCategory, RunStamp)
    /\ kpc' = "done"
    /\ UNCHANGED <<kitems, ki, skillToCategory, extractVars, retryVars, crawlVars, poolVars,
                   fetchVars>>

CategorizeNext ==
    \/ CategorizeItem
    \/ WriteCategoryIndex

SpecCategorize == CategorizeInit /\ [][CategorizeNext]_vars

\* the rules that match an item's text
Hits(skill) == {k \in 1..Len(CategoryNames) : RuleMatches(k, SearchText(skill))}

\* C16: every item the loop has passed has exactly one entry in
\* skillToCategory: the name of the first rule in CATEGORIES order that
\* matches its text, whatever later rules match too, and "other" exactly
\* when no rule matches; the written file holds these entries.
C16_FirstMatchWins ==
    /\ DOMAIN skillToCategory = {kitems[i].id : i \in 1..(ki - 1)}
    /\ Cardinality(DOMAIN skillToCategory) = ki - 1
    /\ \A i \in 1..(ki - 1) :
          LET c == skillToCategory[kitems[i].id]
              hits == Hits(kitems[i]) IN
          /\ (c = "other") <=> (hits = {})
          /\ hits # {} =>
                \E k \in hits : c = CategoryNames[k] /\ \A j \in hits : k <= j
    /\ kpc = "done" => categoryFile.skillToCategory = skillToCategory

\* a written category index in which "Docker Data pipeline" (rules 1 and 2
\* match) is development-tools and a haiku skill is other
C16_Witness ==
    /\ kpc = "done"
    /\ Len(kitems) = 2
    /\ kitems[1].title = <<"Docker", "Data", "pipeline">>
    /\ Hits(kitems[1]) = {1, 2}
    /\ categoryFile.skillToCategory[kitems[1].id] = "development-tools"
    /\ Hits(kitems[2]) = {}
    /\ categoryFile.skillToCategory[kitems[2].id] = "other"

----------------------------------------------------------------------------
\* The enricher: fetchSkillDescription as the fn of processPool, and main

MaxIndexItems == 2

\* the values of FETCH_CONCURRENCY: no worker, one, two at a time
EnrichConcurrencies == {0, 1, 2}

\* source and skillId of the items an index holds, in index order
EnrichKeys == <<[source |-> "a", skillId |-> "b"], [source |-> "a", skillId |-> "c"],
                [source |-> "d", skillId |-> "b"]>>

\* lines 253-263
candidatePaths(source, skillId) ==
    <<"skills/" \o skillId \o "/SKILL.md",
      "skills/" \o skillId \o "/skill.md",
      ".claude/skills/" \o skillId \o "/SKILL.md",
      ".claude/skills/" \o skillId \o "/skill.md",
      ".cursor/skills/" \o skillId \o "/SKILL.md",
      "SKILL.md",
      "skill.md">>

\* lines 357 and 375: the path recorded in the index
MdPath(item) == "data/skills-md/" \o item.source \o "/" \o item.skillId \o "/SKILL.md"

\* a SKILL.md whose first paragraph gives a description, and one whose
\* paragraph is too short
GoodDoc == Document("plain", 12)

ShortDoc == Document("plain", 5)

\* the description an index item got in an earlier run
OldDesc == SomeDesc(TextOf(11))

\* the body of a 404 answer: "404: Not Found"
NotFoundPage == <<"4", "0", "4", ":", " ", "N", "o", "t", " ", "F", "o", "u", "n", "d">>

\* what the server can answer to one request for a raw file: a 200 with a
\* document or an empty body, a 404, or no answer (network error, timeout)
FetchOutcomes ==
    {[kind |-> "ok", body |-> d] : d \in {GoodDoc, ShortDoc, <<>>}}
        \cup {[kind |-> "status", body |-> NotFoundPage], [kind |-> "throw", body |-> <<>>]}

fetchGitHubRawAnyStatus(o) == IF o.kind # "throw" THEN SomeDesc(o.body) ELSE NullDesc

\* lines 267-284: the text of an ok response, null otherwise
fetchGitHubRaw(o) == IF o.kind = "ok" THEN SomeDesc(o.body) ELSE NullDesc

\* line 365: `if (content)` holds for a text that is not empty
HasContent(content) == ~content.null /\ content.text # <<>>

\* a file of the cache
CacheFile(text) == [kind |-> "ok", text |-> text]

\* what fetchSkillDescription resolves to; line 430 adds the item's id, which
\* the pool's slot keeps as the item's position
FetchResult(d, path) == [description |-> d, mdPath |-> path]

CacheHitNever(file) == FALSE

\* lines 351-360: is the result taken from the cache file
CacheHit(file) == file.kind = "ok" /\ ~extractDescription(file.text).null

\* the k-th item of an index, with the description d of an earlier run or none
EnrichItem(k, d) ==
    [id |-> EnrichKeys[k].source \o "/" \o EnrichKeys[k].skillId,
     source |-> EnrichKeys[k].source, skillId |-> EnrichKeys[k].skillId,
     description |-> d,
     skillMdPath |-> IF d.null THEN Null ELSE MdPath(EnrichKeys[k])]

\* the item lists of the index the run reads
EnrichIndexes ==
    UNION {{[k \in 1..n |-> EnrichItem(k, ds[k])] : ds \in [1..n -> {NullDesc, OldDesc}]} :
            n \in 0..MaxIndexItems}

\* line 411: index.items.slice(0, TOP_N)
SliceTop(items, n) == SubSeq(items, 1, Min(n, Len(items)))

NeedsFetchAll(items, n) == SliceTop(items, n)

\* lines 411-413
NeedsFetch(items, n) == SelectSeq(SliceTop(items, n), LAMBDA item : item.description.null)

\* lines 351-363 for one item: the call of fetchSkillDescription up to its
\* first await: <<candidate awaited (0: none, the result is there), result>>
CallFetch(item, files) ==
    IF CacheHit(files[item.id])
    THEN <<0, FetchResult(extractDescription(files[item.id].text), MdPath(item))>>
    ELSE <<1, FetchResult(NullDesc, Null)>>

\* the item worker w holds in pool state (idx, needs)
ItemAt(needs, idx) == needs[idx + 1]

\* line 399 with fetchSkillDescription as fn: every worker takes its first
\* item and calls fn, which answers from the cache or requests candidate 1
EnrichPoolStart ==
    /\ epc = "pool"
    /\ PoolStart
    /\ LET calls == [w \in Workers |-> CallFetch(ItemAt(needsFetch, w - 1), cache)] IN
        /\ fcand' = [w \in Workers |-> calls[w][1]]
        /\ fres' = [w \in Workers |-> calls[w][2]]
        /\ requested' = [id \in DOMAIN requested |->
                LET ws == {w \in Workers : ItemAt(needsFetch, w - 1).id = id /\ calls[w][1] = 1}
                IN IF ws = {} THEN <<>>
                   ELSE LET item == ItemAt(needsFetch, (CHOOSE w \in ws : TRUE) - 1)
                        IN <<candidatePaths(item.source, item.skillId)[1]>>]
    /\ UNCHANGED <<epc, eindex, topN, needsFetch, cache, written, okSeen, eIndexFile, epre>>

NextCandidateSkips(c, content, item) ==
    IF HasContent(content) THEN 0
    ELSE IF c + 1 < Len(candidatePaths(item.source, item.skillId)) THEN c + 2
    ELSE 0

\* lines 364-379: the candidate awaited next after candidate c answered
\* with `content` (0: none, fn returns)
NextCandidate(c, content, item) ==
    IF HasContent(content) THEN 0
    ELSE IF c < Len(candidatePaths(item.source, item.skillId)) THEN c + 1
    ELSE 0

\* lines 364-379: the request of worker w for a candidate path is answered
CandidateResponse(w, o) ==
    /\ epc = "pool"
    /\ ppc = "running"
    /\ wpc[w] = "inflight"
    /\ fcand[w] >= 1
    /\ LET item == ItemAt(needsFetch, widx[w])
           content == fetchGitHubRaw(o)
           nxt == NextCandidate(fcand[w], content, item) IN
        /\ fcand' = [fcand EXCEPT ![w] = nxt]
        /\ IF HasContent(content)
           THEN /\ cache' = [cache EXCEPT ![item.id] = CacheFile(content.text)]
                /\ written' = [written EXCEPT ![item.id] = Append(@, content.text)]
                /\ fres' = [fres EXCEPT ![w] =
                              FetchResult(extractDescription(content.text), MdPath(item))]
           ELSE /\ UNCHANGED <<cache, written>>
                /\ fres' = [fres EXCEPT ![w] = FetchResult(NullDesc, Null)]
        /\ requested' = IF nxt = 0 THEN requested
                        ELSE [requested EXCEPT ![item.id] =
                                Append(@, candidatePaths(item.source, item.skillId)[nxt])]
        /\ okSeen' = IF o.kind = "ok" THEN okSeen \cup {item.id} ELSE okSeen
    /\ UNCHANGED <<epc, eindex, topN, needsFetch, eIndexFile, epre>>
    /\ UNCHANGED <<poolVars, retryVars, crawlVars, toolVars>>

\* lines 393-396 and 424-431: fn resolved for worker w; the worker stores the
\* result and, when an item is left, takes it and calls fn for it
EnrichResume(w) ==
    /\ epc = "pool"
    /\ w \in DOMAIN fcand
    /\ fcand[w] = 0
    /\ WorkerResume(w, fres[w])
    /\ IF nextIdx < nItems
       THEN LET item == ItemAt(needsFetch, nextIdx)
                call == CallFetch(item, cache) IN
            /\ fcand' = [fcand EXCEPT ![w] = call[1]]
            /\ fres' = [fres EXCEPT ![w] = call[2]]
            /\ requested' = IF call[1] = 1
                            THEN [requested EXCEPT ![item.id] =
                                    Append(@, candidatePaths(item.source, item.skillId)[1])]
                            ELSE requested
       ELSE UNCHANGED <<fcand, fres, requested>>
    /\ UNCHANGED <<epc, eindex, topN, needsFetch, cache, written, okSeen, eIndexFile, epre>>

\* lines 436-442: the patch of one item
PatchItem(item, res) ==
    IF ~res.null /\ ~res.value.description.description.null
    THEN [item EXCEPT !.description = res.value.description.description,
                      !.skillMdPath = res.value.description.mdPath]
    ELSE item

\* lines 433-435: descMap.get(id): the last of the results that carry the id
DescMapGet(res, needs, id) ==
    LET at == {i \in DOMAIN res : res[i].filled /\ needs[res[i].item + 1].id = id}
    IN IF at = {} THEN [null |-> TRUE, value |-> Hole]
       ELSE [null |-> FALSE, value |-> res[CHOOSE i \in at : \A j \in at : i >= j]]

\* lines 433-445: the pool resolved; a slot nothing was stored in makes
\* `new Map` throw, otherwise the index is patched and written
UpdateIndex ==
    /\ epc = "pool"
    /\ ppc = "resolved"
    /\ IF \E i \in DOMAIN results : ~results[i].filled
       THEN /\ epc' = "failed"
            /\ UNCHANGED <<eindex, eIndexFile>>
       ELSE /\ eindex' = [i \in 1..Len(eindex) |->
                            PatchItem(eindex[i], DescMapGet(results, needsFetch, eindex[i].id))]
            /\ eIndexFile' = [eIndexFile EXCEPT !.items = eindex']
            /\ epc' = "done"
    /\ UNCHANGED <<topN, needsFetch, cache, fcand, fres, requested, written, okSeen, epre>>
    /\ UNCHANGED <<poolVars, retryVars, toolVars>>

\* lines 433-445 in a run of the enricher alone
PatchAndWrite ==
    /\ UpdateIndex
    /\ UNCHANGED crawlVars

\* the cache before a run: for every item no file, a good one or a short
\* one; an item described by an earlier run has the file that run cached
StartCaches(items) ==
    {c \in [{items[i].id : i \in 1..Len(items)} ->
                {Missing, CacheFile(GoodDoc), CacheFile(ShortDoc)}] :
        \A i \in 1..Len(items) :
            ~items[i].description.null => c[items[i].id] = CacheFile(GoodDoc)}

\* main at line 399: the index was read and processPool entered
EnrichInit ==
    /\ epc = "pool"
    /\ eindex \in EnrichIndexes
    /\ topN \in 0..MaxIndexItems
    /\ needsFetch = NeedsFetch(eindex, topN)
    /\ cache \in StartCaches(eindex)
    /\ fcand = <<>>
    /\ fres = <<>>
    /\ requested = [id \in DOMAIN cache |-> <<>>]
    /\ written = [id \in DOMAIN cache |-> <<>>]
    /\ okSeen = {}
    /\ eIndexFile = [kind |-> "ok", updatedAt |-> OldStamp, sourceUpdatedAt |-> OldStamp,
                     providerId |-> "skills.sh", count |-> Len(eindex), items |-> eindex]
    /\ epre = [index |-> eIndexFile, cache |-> cache]
    /\ ppc = "start"
    /\ concurrency \in EnrichConcurrencies
    /\ nItems = Len(needsFetch)
    /\ nextIdx = 0
    /\ results = [i \in 0..(nItems - 1) |-> Hole]
    /\ wpc = <<>>
    /\ widx = <<>>
    /\ claims = [i \in 0..(nItems - 1) |-> <<>>]
    /\ RetryOff
    /\ CrawlOff
    /\ ToolsOff

EnrichNext ==
    \/ EnrichPoolStart
    \/ \E w \in Workers, o \in FetchOutcomes : CandidateResponse(w, o)
    \/ \E w \in Workers : EnrichResume(w)
    \/ PatchAndWrite

SpecEnrich == EnrichInit /\ [][EnrichNext]_vars

\* the item of the index the run started from, by id
StartItem(id) ==
    LET items == epre.index.items
    IN items[CHOOSE k \in 1..Len(items) : items[k].id = id]

\* the pool slots that belong to an id
SlotsOf(id) == {i \in DOMAIN results : needsFetch[i + 1].id = id}

\* fetchSkillDescription was called for the id
Attempted(id) == \E i \in SlotsOf(id) : claims[i] # <<>>

\* the call for the id has ended and its result is stored
Stored(id) == \E i \in SlotsOf(id) : results[i].filled

\* what the call for the id resolved to
ResultOf(id) == results[CHOOSE i \in SlotsOf(id) : results[i].filled].description

\* the workers whose call for the id has not yet been resumed
CallsFor(id) == {w \in DOMAIN wpc : wpc[w] = "inflight" /\ needsFetch[widx[w] + 1].id = id}

\* the cache file the id had before the run gives a description
UsableBefore(id) ==
    /\ epre.cache[id].kind = "ok"
    /\ Len(Truncate(Cleaned(ParagraphLines(epre.cache[id].text)))) > 10

IdsOf(items) == {items[k].id : k \in 1..Len(items)}

\* C12: when the cache file of an item exists and gives a description, no
\* request is made for the item, its cache file is not written, and the
\* call returns that description with the item's path; so a request is made
\* only for an item whose cache file is absent or gives no description.
C12_CacheHitNoNetwork ==
    \A id \in DOMAIN cache :
        UsableBefore(id) =>
            /\ requested[id] = <<>>
            /\ written[id] = <<>>
            /\ cache[id] = epre.cache[id]
            /\ Stored(id) =>
                  ResultOf(id) = FetchResult(extractDescription(epre.cache[id].text),
                                             MdPath(StartItem(id)))

\* an item answered from its cache while the other item, whose cache file
\* gave no description, went to the network
C12_Witness ==
    /\ epc = "done"
    /\ \E id \in DOMAIN cache, other \in DOMAIN cache :
          /\ UsableBefore(id)
          /\ Stored(id)
          /\ ~ResultOf(id).description.null
          /\ epre.cache[other] = CacheFile(ShortDoc)
          /\ requested[other] # <<>>

\* C13: for an item not answered from the cache the candidate paths are
\* requested in list order, each at most once and never again after a
\* failure; the call awaits the candidate requested last; after the first
\* candidate with content nothing more is requested, exactly that text is
\* written to the cache file, once, and the call returns the description
\* extracted from it; a call that returns no path has tried every candidate.
C13_CandidatesInOrder ==
    \A id \in DOMAIN cache :
        LET item == StartItem(id)
            paths == candidatePaths(item.source, item.skillId) IN
        /\ Len(requested[id]) <= Len(paths)
        /\ requested[id] = SubSeq(paths, 1, Len(requested[id]))
        /\ \A w \in CallsFor(id) :
              fcand[w] # 0 => written[id] = <<>> /\ fcand[w] = Len(requested[id])
        /\ Len(written[id]) <= 1
        /\ written[id] # <<>> =>
              /\ written[id][1] # <<>>
              /\ cache[id] = CacheFile(written[id][1])
              /\ Stored(id) =>
                    ResultOf(id) = FetchResult(extractDescription(written[id][1]), MdPath(item))
        /\ (Stored(id) /\ requested[id] # <<>> /\ written[id] = <<>>) =>
              /\ requested[id] = paths
              /\ ResultOf(id) = FetchResult(NullDesc, Null)

\* a finished run in which two candidates of an item failed, the third gave
\* the document, and the description was returned
C13_Witness ==
    /\ epc = "done"
    /\ \E id \in DOMAIN cache :
          /\ Len(requested[id]) = 3
          /\ written[id] = <<GoodDoc>>
          /\ Stored(id)
          /\ ~ResultOf(id).description.null

\* every request made for the id failed and its call has ended
AllCandidatesFailed(id) == Stored(id) /\ requested[id] # <<>> /\ id \notin okSeen

\* C14: when every candidate of an item failed, the call's result is
\* description null (and no path), no cache file was written for the item,
\* and the run is not aborted: it has not failed, and when it is done every
\* item to fetch was processed, the index was written, and the item has
\* description null in it.
C14_AllFailedKeepsNull ==
    \A id \in DOMAIN cache :
        AllCandidatesFailed(id) =>
            /\ ResultOf(id) = FetchResult(NullDesc, Null)
            /\ written[id] = <<>>
            /\ cache[id] = epre.cache[id]
            /\ epc # "failed"
            /\ epc = "done" =>
                  /\ \A i \in DOMAIN results : results[i].filled
                  /\ \A k \in 1..Len(eIndexFile.items) :
                        eIndexFile.items[k].id = id =>
                            /\ eIndexFile.items[k].description.null
                            /\ eIndexFile.items[k] = epre.index.items[k]

\* a finished run: all candidates of the first item failed, the second item
\* was processed after it and got its description
C14_Witness ==
    /\ epc = "done"
    /\ concurrency = 1
    /\ Len(needsFetch) = 2
    /\ AllCandidatesFailed(needsFetch[1].id)
    /\ Len(requested[needsFetch[1].id]) = 7
    /\ ~ResultOf(needsFetch[2].id).description.null
    /\ ~eIndexFile.items[2].description.null

\* the ids among the first n items that have no description
LackingInTop(items, n) ==
    {items[k].id : k \in {j \in 1..Len(items) : j <= n /\ items[j].description.null}}

\* C11: a description is attempted (the item is handed to the pool, a
\* request is made, a cache file is written) only for items among the first
\* TOP_N of the index that lack a description; the index file changes only
\* when the run is done, and then it has the same items in the same order,
\* an item attempted with a result that is not null has the result's
\* description and path, and every other item is identical to its input.
C11_PatchOnlyFetched ==
    LET before == epre.index.items
        after == eIndexFile.items
        lacking == LackingInTop(before, topN) IN
    /\ IdsOf(needsFetch) \subseteq lacking
    /\ \A id \in DOMAIN cache :
          (Attempted(id) \/ requested[id] # <<>> \/ written[id] # <<>>) => id \in lacking
    /\ epc # "done" => eIndexFile = epre.index
    /\ Len(after) = Len(before)
    /\ [f \in (DOMAIN eIndexFile) \ {"items"} |-> eIndexFile[f]]
          = [f \in (DOMAIN eIndexFile) \ {"items"} |-> epre.index[f]]
    /\ \A k \in 1..Len(after) :
          LET id == before[k].id IN
          IF epc = "done" /\ Attempted(id) /\ ~ResultOf(id).description.null
          THEN after[k] = [before[k] EXCEPT !.description = ResultOf(id).description,
                                            !.skillMdPath = ResultOf(id).mdPath]
          ELSE after[k] = before[k]

\* a written index: the first item was fetched and patched, the second, past
\* TOP_N and without a description, is as it was
C11_Witness ==
    /\ epc = "done"
    /\ topN = 1
    /\ Len(eIndexFile.items) = 2
    /\ epre.index.items[1].description.null
    /\ ~eIndexFile.items[1].description.null
    /\ eIndexFile.items[1].skillMdPath = MdPath(eIndexFile.items[1])
    /\ eIndexFile.items[2].description.null
    /\ eIndexFile.items[2] = epre.index.items[2]

----------------------------------------------------------------------------
\* The pipeline: a crawl, a run of the enricher on the index the crawl wrote,
\* and a second crawl. One data directory serves the three runs.

MaxPipelineRows == 2

\* the timestamp of the second crawl
LaterStamp == "2026-11-06T00:00:00.000Z"

\* the rows the server lists in a run of the pipeline: two skills, one of
\* them the skill of the old index
PipelineSkills == {s \in ApiSkills : s.skillId = "b" /\ s.installs = MaxInstalls}

\* what the fetch phase of a crawl of the pipeline produced: the rows are on
\* the all-time board
PipelineBoards ==
    {[b \in BoardNames |-> IF b = BOARDS[1] THEN rows ELSE <<>>] :
        rows \in SeqsUpTo(PipelineSkills, MaxPipelineRows)}

\* the data directory before the first crawl: absent, fresh, or left by an
\* earlier crawl and enrichment
PipelineFiles ==
    {[dir |-> FALSE, firstSeen |-> Missing, index |-> Missing],
     [dir |-> TRUE, firstSeen |-> Missing, index |-> Missing],
     [dir |-> TRUE, firstSeen |-> FirstSeenContent([id \in KnownIds |-> OldStamp]),
      index |-> OldIndex]}

\* JSON.stringify of a text: the string of its pieces
RECURSIVE JoinChars(_)
JoinChars(text) == IF text = <<>> THEN "" ELSE text[1] \o JoinChars(Tail(text))

\* lines 408-409, JSON.parse: in an item null stays null, a description
\* comes back as one string
ParseIndex(file) ==
    [file EXCEPT !.items = [i \in 1..Len(@) |->
        [@[i] EXCEPT !.description = IF @ = Null THEN NullDesc ELSE SomeDesc(<<@>>)]]]

\* line 444, JSON.stringify
StringifyIndex(index) ==
    [index EXCEPT !.items = [i \in 1..Len(@) |->
        [@[i] EXCEPT !.description = IF @.null THEN Null ELSE JoinChars(@.text)]]]

\* the first crawl after the loop of lines 129-131
PipelineInit ==
    /\ cpc = "merge"
    /\ board = Len(BOARDS) + 1
    /\ page = 0
    /\ all = <<>>
    /\ boardData \in PipelineBoards
    /\ firstSeen = EmptyMap
    /\ now = RunStamp
    /\ \E f \in PipelineFiles :
        /\ dataDir = f.dir
        /\ firstSeenFile = f.firstSeen
        /\ indexFile = f.index
        /\ pre = f
    /\ clog = <<>>
    /\ closed = {}
    /\ rpc = "idle"
    /\ attempt = 0
    /\ rerr = ""
    /\ rlog = <<>>
    /\ PoolOff
    /\ ToolsOff
    /\ FetchOff

\* lines 405-414 and 389-390: the enricher starts on the index the first
\* crawl wrote, reads it and enters processPool; the crawler's process is gone
EnrichLoad ==
    /\ cpc = "done"
    /\ epc = "off"
    /\ indexFile.updatedAt = RunStamp
    /\ epc' = "pool"
    /\ eIndexFile' = ParseIndex(indexFile)
    /\ eindex' = eIndexFile'.items
    /\ topN' \in 0..MaxPipelineRows
    /\ needsFetch' = NeedsFetch(eindex', topN')
    /\ cache' \in StartCaches(eindex')
    /\ fcand' = <<>>
    /\ fres' = <<>>
    /\ requested' = [id \in DOMAIN cache' |-> <<>>]
    /\ written' = [id \in DOMAIN cache' |-> <<>>]
    /\ okSeen' = {}
    /\ epre' = [index |-> eIndexFile', cache |-> cache']
    /\ ppc' = "start"
    /\ concurrency' \in EnrichConcurrencies
    /\ nItems' = Len(needsFetch')
    /\ nextIdx' = 0
    /\ results' = [i \in 0..(nItems' - 1) |-> Hole]
    /\ wpc' = <<>>
    /\ widx' = <<>>
    /\ claims' = [i \in 0..(nItems' - 1) |-> <<>>]
    /\ cpc' = "off"
    /\ board' = 0
    /\ page' = 0
    /\ all' = <<>>
    /\ boardData' = [b \in BoardNames |-> <<>>]
    /\ firstSeen' = EmptyMap
    /\ UNCHANGED <<now, dataDir, firstSeenFile, indexFile, pre, clog, closed>>
    /\ UNCHANGED <<retryVars, toolVars>>

\* lines 433-445 on the one index file: what the enricher writes is what the
\* next crawl finds
PatchAndWriteFile ==
    /\ UpdateIndex
    /\ indexFile' = IF epc' = "done" THEN StringifyIndex(eIndexFile') ELSE indexFile
    /\ UNCHANGED <<cpc, board, page, all, boardData, firstSeen, now, dataDir,
                   firstSeenFile, pre, clog, closed>>

\* the second crawl after the loop of lines 129-131, started when the
\* enricher has ended; the enricher's process is gone, the cache files stay
Recrawl ==
    /\ cpc = "off"
    /\ epc \in {"done", "failed"}
    /\ cpc' = "merge"
    /\ board' = Len(BOARDS) + 1
    /\ page' = 0
    /\ all' = <<>>
    /\ boardData' \in PipelineBoards
    /\ firstSeen' = EmptyMap
    /\ now' = LaterStamp
    /\ pre' = [dir |-> dataDir, firstSeen |-> firstSeenFile, index |-> indexFile]
    /\ UNCHANGED <<dataDir, firstSeenFile, indexFile, clog, closed>>
    /\ epc' = "off"
    /\ eindex' = <<>>
    /\ topN' = 0
    /\ needsFetch' = <<>>
    /\ fcand' = <<>>
    /\ fres' = <<>>
    /\ requested' = <<>>
    /\ written' = <<>>
    /\ okSeen' = {}
    /\ eIndexFile' = [kind |-> "missing"]
    /\ epre' = [index |-> [kind |-> "missing"], cache |-> <<>>]
    /\ UNCHANGED cache
    /\ ppc' = "off"
    /\ concurrency' = 0
    /\ nItems' = 0
    /\ nextIdx' = 0
    /\ results' = <<>>
    /\ wpc' = <<>>
    /\ widx' = <<>>
    /\ claims' = <<>>
    /\ UNCHANGED <<retryVars, toolVars>>

PipelineNext ==
    \/ MergeAndSave
    \/ WriteIndex
    \/ EnrichLoad
    \/ EnrichPoolStart
    \/ \E w \in Workers, o \in FetchOutcomes : CandidateResponse(w, o)
    \/ \E w \in Workers : EnrichResume(w)
    \/ PatchAndWriteFile
    \/ Recrawl

SpecPipeline == PipelineInit /\ [][PipelineNext]_vars

\* the items of an index file that carry a description or a path
Described(file) ==
    {k \in 1..Len(file.items) :
        file.items[k].description # Null \/ file.items[k].skillMdPath # Null}

\* C21: when a crawl run has ended successfully, every item of the index
\* file has description null and skillMdPath null, whatever the index file
\* held before the run; so a description the enricher wrote into the index
\* between two crawls is not in the index the second crawl writes.
C21_CrawlResetsDescriptions ==
    cpc = "done" =>
        /\ indexFile.kind = "ok"
        /\ Described(indexFile) = {}

\* crawl, enrich, crawl: the second crawl has ended; the index it found was
\* written by the first crawl and holds an item the enricher described, and
\* the index it wrote lists that item again
C21_Witness ==
    /\ cpc = "done"
    /\ now = LaterStamp
    /\ pre.index.kind = "ok"
    /\ pre.index.updatedAt = RunStamp
    /\ \E k \in Described(pre.index), j \in 1..Len(indexFile.items) :
          /\ pre.index.items[k].id = indexFile.items[j].id
          /\ pre.index.items[k].skillMdPath = MdPath(pre.index.items[k])
          /\ indexFile.items[j].description = Null
          /\ indexFile.items[j].skillMdPath = Null

----------------------------------------------------------------------------
\* One call of fetchWithRetry against an arbitrary server

RetryInit ==
    /\ rpc = "loop"
    /\ attempt = 0
    /\ rlog = <<>>
    /\ rerr = ""
    /\ CrawlOff
    /\ PoolOff
    /\ ToolsOff
    /\ FetchOff

RetrySend == SendRequest /\ UNCHANGED <<rlog, crawlVars, enrichVars>>

RetryReceive ==
    \E o \in Outcomes :
        /\ Receive(o)
        /\ rlog' = Logged(rlog, o, attempt)
        /\ UNCHANGED <<crawlVars, enrichVars>>

RetryWake == Wake /\ UNCHANGED <<rlog, crawlVars, enrichVars>>

RetryNext ==
    \/ RetrySend
    \/ RetryReceive
    \/ RetryWake

SpecRetry == RetryInit /\ [][RetryNext]_vars

----------------------------------------------------------------------------
\* Reading the history of a call

IsRequest(e) == e.ev = "request"

IsWait(e) == e.ev = "wait"

\* the outcomes of the requests issued so far, in order
ReqOutcomes(log) ==
    LET reqs == SelectSeq(log, IsRequest) IN [i \in 1..Len(reqs) |-> reqs[i].outcome]

\* the durations of the backoff waits so far, in order
WaitDurations(log) ==
    LET ws == SelectSeq(log, IsWait) IN [i \in 1..Len(ws) |-> ws[i].ms]

\* a retryable outcome in the words of the retry policy
Retryable(o) == o.kind = "throw" \/ o.status = 429 \/ o.status >= 500

\* a non-ok status that the policy does not retry
NonRetryable(o) == o.kind = "resp" /\ ~IsOk(o) /\ ~Retryable(o)

Terminated == rpc \in {"returned", "thrown"}

\* C1: a request answered with a non-retryable status is the last event of
\* the call (no wait and no request follows it) and the call has failed; in
\* particular, when it is the first request, exactly one request was issued.
C1_NonRetryableFailsImmediately ==
    \A i \in 1..Len(rlog) :
        (IsRequest(rlog[i]) /\ NonRetryable(rlog[i].outcome))
            => (i = Len(rlog) /\ rpc = "thrown")

\* the schedule 200ms * 2^i, written out
ExpectedWaits == <<200, 400, 800>>

\* C2: when the first k requests (k in 0..3) ended in a retryable outcome
\* and request k+1 was answered ok, the call has returned, made exactly the
\* k waits 200, 400, 800 (in that order), and the ok request is its last event.
C2_BackoffThenOk ==
    LET outs == ReqOutcomes(rlog)
        k == Len(outs) - 1 IN
    (/\ Len(outs) >= 1
     /\ k <= 3
     /\ \A i \in 1..k : Retryable(outs[i])
     /\ IsOk(outs[k + 1]))
        => (/\ rpc = "returned"
            /\ WaitDurations(rlog) = SubSeq(ExpectedWaits, 1, k)
            /\ IsRequest(rlog[Len(rlog)]))

\* a call that succeeded on the fourth attempt after three retryable failures
C2_Witness ==
    LET outs == ReqOutcomes(rlog) IN
    /\ rpc = "returned"
    /\ Len(outs) = 4
    /\ \A i \in 1..3 : Retryable(outs[i])
    /\ outs[1].status = 503 /\ outs[2].kind = "throw" /\ outs[3].status = 429

C3_Safe ==
    LET outs == ReqOutcomes(rlog) IN
    /\ Len(outs) <= 4
    /\ rpc = "returned" => (Len(outs) >= 1 /\ IsOk(outs[Len(outs)]))
    /\ (Len(outs) = 4 /\ \A i \in 1..4 : Retryable(outs[i]))
            => rpc \in {"sleeping", "thrown"}

\* C3: a call issues at most 4 requests, returns only an ok response, does
\* not continue after 4 retryable outcomes, and always terminates (returned
\* or thrown).
C3_BoundedRetry == [](C3_Safe) /\ <>(Terminated)

\* four retryable outcomes in a mix of statuses and thrown errors: the call threw
C3_Witness ==
    LET outs == ReqOutcomes(rlog) IN
    /\ rpc = "thrown"
    /\ Len(outs) = 4
    /\ outs[1].status = 503 /\ outs[2].kind = "throw"
    /\ outs[3].status = 429 /\ outs[4].status = 503

\* every awaited fetch settles (REQUEST_TIMEOUT) and every sleep timer fires
SpecRetryFair == RetryInit /\ [][RetryNext]_vars /\ WF_vars(RetryNext)

\* C20: a call never waits after its fourth attempt: it makes at most 3
\* backoff waits, and once it has ended the waits are fewer than the
\* requests it issued.
C20_NoWaitAfterLastAttempt ==
    /\ Len(WaitDurations(rlog)) <= 3
    /\ Terminated => Len(WaitDurations(rlog)) < Len(ReqOutcomes(rlog))

====
